---- MODULE Spec2Model ----
(***************************************************************************)
(* The voice/text session controller of jarvis-ui: the useJarvis hook.     *)
(*                                                                         *)
(* The hook keeps React state (status, messages, tasks) and mutable refs   *)
(* (socketRef, playerRef, recorderRef, interruptVadRafRef, streamingIdRef, *)
(* micStreamRef, isMicInitialized, currentSampleRate).  Its handlers run   *)
(* to completion on the browser's event loop; every handler is one action. *)
(*                                                                         *)
(* React state: setX(value) is recorded at once (nothing in the hook reads *)
(* a state value back).  setMessages(updater) with an updater that reads   *)
(* streamingIdRef.current is the exception: React runs a queued updater    *)
(* during the next render, and only computes it inside the call when the   *)
(* component has no update pending.  msgQueue holds the updaters that wait *)
(* for the render, dirty says that an update is pending, and Render is the *)
(* render React scheduled.                                                 *)
(***************************************************************************)
EXTENDS Integers, Sequences, FiniteSets, TLC

VARIABLES
    status,             \* useState<JarvisStatus>
    messages,           \* useState<Message[]>: the list as last rendered
    msgQueue,           \* setMessages updaters waiting for the next render
    dirty,              \* the component has an update pending (a render is scheduled)
    tasks,              \* useState<Task[]>
    streamingId,        \* streamingIdRef.current
    now,                \* Date.now()
    socks,              \* readyState of every WebSocket created so far
    socketRef,          \* socketRef.current: an index of socks, or 0 for null
    firstSent,          \* per WebSocket: the first frame sent on it
    player,             \* playerRef.current is an engine
    sampleRate,         \* currentSampleRate.current
    micInit,            \* isMicInitialized.current (micStreamRef.current is set with it)
    micWaits,           \* startRecording calls suspended in getUserMedia
    micFailed,          \* history: the last microphone acquisition failed
    recs,               \* every MediaRecorder created so far
    recorderRef,        \* recorderRef.current: an index of recs, or 0 for null
    blobs,              \* blob.arrayBuffer() promises not yet resolved
    loops,              \* barge-in loops with a callback requested, oldest first
    nextLoop,           \* number of barge-in loops started so far
    rafRef,             \* interruptVadRafRef.current: the loop whose request it holds, 0 for null
    monRec,             \* monitorVAD: the recorder its loop watches, 0 when no callback is requested
    speechSeen,         \* monitorVAD: let speechSeen
    speechDurationMs,   \* monitorVAD: let speechDurationMs
    silenceMs,          \* monitorVAD: let silenceMs
    loudRun,            \* history: above-threshold frames sampled in a row, up to now
    quietRun,           \* history: below-threshold frames sampled since the last loud one
    monEnd,             \* history: why the monitor stopped requesting frames
    tokAcc,             \* history: token payloads since the last assistant_start
    intrCount,          \* history: interrupt frames sent since the last assistant_start
    sentBin,            \* history: binary frames handed to a transport
    textFrames,         \* history: the texts of the text_input frames handed to a transport
    streamSock,         \* history: the WebSocket whose assistant_start set streamingIdRef last
    session,            \* the sessionId prop of the last render, "" for none
    sessionIdRef,       \* sessionIdRef.current when a prop set it, "" for null or the lazy id
    fetches,            \* getSessionHistory calls not yet settled: their session ids
    fed,                \* history: chunks fed to an engine since the last barge-in
    doneId,             \* history: the stream the last done frame closed
    lastUpd,            \* history: the last task_update since the last task_queue
    attached,           \* history: a task_queue was attached in this turn
    last,               \* history: the handler that ran last
    budget              \* handler runs left in this exploration

vars == <<status, messages, msgQueue, dirty, tasks, streamingId, now, socks,
          socketRef, firstSent, player, sampleRate, micInit, micWaits, micFailed,
          recs, recorderRef, blobs, loops, nextLoop, rafRef, monRec, speechSeen,
          speechDurationMs, silenceMs, loudRun, quietRun, monEnd, tokAcc, intrCount,
          sentBin, textFrames, streamSock, session, sessionIdRef, fetches, fed, doneId, lastUpd, attached, last, budget>>

msgVars  == <<messages, msgQueue, dirty, tasks, streamingId, tokAcc, doneId, lastUpd, attached>>
sockVars == <<socks, socketRef, firstSent>>
audioVars == <<player, sampleRate, fed>>
recVars  == <<micInit, micWaits, micFailed, recs, recorderRef, blobs, sentBin>>
vadVars  == <<loops, nextLoop, rafRef, intrCount>>
sessVars == <<session, sessionIdRef, fetches>>
monVars  == <<monRec, speechSeen, speechDurationMs, silenceMs, loudRun, quietRun, monEnd>>

-----------------------------------------------------------------------------
(* Bounds of the model.                                                    *)

StepsCtrl == 8      \* handler runs explored from construction
StepsStream == 6    \* handler runs explored on the message store
StepsTasks == 5     \* handler runs explored on the task lists
StepsBarge == 6     \* handler runs explored on playback and barge-in
StepsMonitor == 3   \* handler runs explored beside the frames of the recording monitor
StepsTyped == 6     \* handler runs explored on typed input
StepsHistory == 6   \* handler runs explored on session changes and history
MaxRun == 160       \* frames of one kind the recording monitor samples in a row

-----------------------------------------------------------------------------
(* Values.                                                                 *)

Statuses == {"disconnected", "idle", "listening", "processing", "speaking"}
TaskStatuses == {"queued", "running", "complete", "failed"}

NoId == <<"none", 0>>                       \* streamingIdRef.current === null
SessionMsgId(t) == <<"session", t>>         \* `${sessionIdRef.current}-${Date.now()}`
TextMsgId(t) == <<"msg", t>>                \* `msg-${Date.now()}`

Message(id, source, text) ==
    [id |-> id, source |-> source, text |-> text, hasTasks |-> FALSE, tasks |-> <<>>]

Task(id, st) == [id |-> id, status |-> st]

NoUpd == Task("", "")                       \* history: no task_update yet

-----------------------------------------------------------------------------
(* setMessages updaters.  An updater is kept as data and run by ApplyUpd   *)
(* with the value streamingIdRef.current has when React runs it.           *)

NoMsg == Message(NoId, "user", <<>>)

Upd(kind, m, text, tl, tid, st) ==
    [kind |-> kind, msg |-> m, text |-> text, tasks |-> tl, tid |-> tid, tstatus |-> st]

\* prev => [...prev, m]
UAppend(m) == Upd("append", m, <<>>, <<>>, "", "")
\* prev => prev.map(m => m.id === streamingIdRef.current ? {...m, text: m.text + msg.text} : m)
UToken(text) == Upd("token", NoMsg, text, <<>>, "", "")
\* prev => prev.map(m => m.id === streamingIdRef.current ? {...m, tasks: msg.tasks || []} : m)
UAttach(tl) == Upd("attach", NoMsg, <<>>, tl, "", "")
\* prev => prev.map(m => m.id === streamingIdRef.current && m.tasks ? {...m, tasks: m.tasks.map(..)} : m)
UTaskStatus(tid, st) == Upd("taskstat", NoMsg, <<>>, <<>>, tid, st)
\* prev => prev.map(m => m.id === streamingIdRef.current ? {...m, text: msg.assistant_text} : m)
UFinal(text) == Upd("final", NoMsg, text, <<>>, "", "")
\* setMessages([])
UClear == Upd("clear", NoMsg, <<>>, <<>>, "", "")
\* setMessages(mappedMessages), for a history of one message m
USet(m) == Upd("set", m, <<>>, <<>>, "", "")

\* a status update that adds the task when no task of the list has its id
SetTaskStatusOrAdd(tl, tid, st) ==
    IF \E i \in DOMAIN tl : tl[i].id = tid
    THEN [i \in DOMAIN tl |-> IF tl[i].id = tid THEN [tl[i] EXCEPT !.status = st] ELSE tl[i]]
    ELSE Append(tl, Task(tid, st))

\* a status update with the comparison inverted: every other task is changed
SetTaskStatusOfOthers(tl, tid, st) ==
    [i \in DOMAIN tl |-> IF tl[i].id # tid THEN [tl[i] EXCEPT !.status = st] ELSE tl[i]]

\* t.id === task_id ? {...t, status} : t, over a task list
SetTaskStatus(tl, tid, st) ==
    [i \in DOMAIN tl |-> IF tl[i].id = tid THEN [tl[i] EXCEPT !.status = st] ELSE tl[i]]

\* a token updater that puts the fragment in front of the text
TokenTextPrepended(old, text) == text \o old

\* the token updater's new text: m.text + msg.text
TokenText(old, text) == old \o text

\* the done updater's new text: msg.assistant_text
FinalText(old, text) == text

ApplyUpd(ms, u, ref) ==
    CASE u.kind = "append" -> Append(ms, u.msg)
      [] u.kind = "clear" -> <<>>
      [] u.kind = "set" -> <<u.msg>>
      [] u.kind = "token" ->
            [i \in DOMAIN ms |-> IF ms[i].id = ref
                                 THEN [ms[i] EXCEPT !.text = TokenText(@, u.text)]
                                 ELSE ms[i]]
      [] u.kind = "final" ->
            [i \in DOMAIN ms |-> IF ms[i].id = ref
                                 THEN [ms[i] EXCEPT !.text = FinalText(@, u.text)]
                                 ELSE ms[i]]
      [] u.kind = "attach" ->
            [i \in DOMAIN ms |-> IF ms[i].id = ref
                                 THEN [ms[i] EXCEPT !.hasTasks = TRUE, !.tasks = u.tasks]
                                 ELSE ms[i]]
      [] u.kind = "taskstat" ->
            [i \in DOMAIN ms |-> IF ms[i].id = ref /\ ms[i].hasTasks
                                 THEN [ms[i] EXCEPT !.tasks = SetTaskStatus(@, u.tid, u.tstatus)]
                                 ELSE ms[i]]

RECURSIVE ApplyAll(_, _, _)
ApplyAll(ms, q, ref) ==
    IF q = <<>> THEN ms ELSE ApplyAll(ApplyUpd(ms, Head(q), ref), Tail(q), ref)

\* What the next render shows if nothing else happens before it.
View == ApplyAll(messages, msgQueue, streamingId)

ReadsRef(u) == u.kind \in {"token", "final", "attach", "taskstat"}

\* React computes an updater inside setMessages only when the component has
\* no update pending, and even then not always; an updater that does not read
\* the ref gives the same list either way, so it is then computed at once.
EagerChoices(u, d) ==
    IF d THEN {FALSE} ELSE IF ReadsRef(u) THEN BOOLEAN ELSE {TRUE}

\* setMessages(u), called with the component's pending flag d and the ref's value ref
SetMessages(u, d, ref) ==
    \E eager \in EagerChoices(u, d) :
        /\ messages' = IF eager THEN ApplyUpd(messages, u, ref) ELSE messages
        /\ msgQueue' = IF eager THEN msgQueue ELSE Append(msgQueue, u)
        /\ dirty' = TRUE

\* setStatus(s): React drops a set to the value already shown when nothing is pending
DirtyAfterSetStatus(d, s) == d \/ s # status

-----------------------------------------------------------------------------
(* Helpers over the refs.                                                  *)

Last(op, note) == <<op, note>>

\* history: handler op ran, and one run of the budget is used.  No handler
\* of the hook reaches the closure of monitorVAD, and only the effects on
\* the sessionId prop touch the session.
Step(op, note) ==
    /\ budget > 0
    /\ budget' = budget - 1
    /\ last' = Last(op, note)
    /\ UNCHANGED <<monVars, sessVars>>

\* a handler other than sendTextMessage and the assistant_start branch ran:
\* it sends no text_input frame and starts no stream
Ran(op, note) ==
    /\ Step(op, note)
    /\ UNCHANGED <<textFrames, streamSock>>

SockOpen == socketRef # 0 /\ socks[socketRef] = "OPEN"
SockConnecting == socketRef # 0 /\ socks[socketRef] = "CONNECTING"

\* history: the first frame handed to WebSocket s
MarkSent(fs, s, kind) == IF fs[s] = "none" THEN [fs EXCEPT ![s] = kind] ELSE fs

Remove(q, x) == SelectSeq(q, LAMBDA y : y # x)

SeqSet(q) == {q[i] : i \in DOMAIN q}

\* The state a barge-in callback works on: rest are the callbacks of this
\* animation frame still to run, next the callbacks requested for the next one.
VadState(rest, next, raf, pl, st, d, n, fs) ==
    [rest |-> rest, next |-> next, rafRef |-> raf, player |-> pl, status |-> st,
     dirty |-> d, intr |-> n, firstSent |-> fs]

\* stopInterruptVAD: cancelAnimationFrame(interruptVadRafRef.current), then null
StopInterruptVAD(v) ==
    IF v.rafRef # 0
    THEN [v EXCEPT !.rest = Remove(@, v.rafRef), !.next = Remove(@, v.rafRef), !.rafRef = 0]
    ELSE v

\* The branch of loop() taken when vol > 30: destroy the engine, send the
\* interrupt frame, stop the loop whose request the ref holds, status idle.
\* WebSocket.send throws while CONNECTING, which ends the callback there;
\* on a closing or closed socket the frame is dropped silently.
Detect(v) ==
    LET v1 == [v EXCEPT !.player = FALSE] IN
    IF SockConnecting THEN v1
    ELSE LET v2 == IF SockOpen
                   THEN [v1 EXCEPT !.intr = @ + 1,
                                   !.firstSent = MarkSent(@, socketRef, "interrupt")]
                   ELSE v1
             v3 == StopInterruptVAD(v2)
         IN [v3 EXCEPT !.dirty = @ \/ v3.status # "idle", !.status = "idle"]

\* One call of loop() for barge-in loop L with vol > 30 or not
LoopBody(v, L, loud) ==
    IF loud THEN Detect(v)
    ELSE [v EXCEPT !.next = Append(@, L), !.rafRef = L]

\* startInterruptVAD: nothing without a microphone stream, else a new loop
\* whose first call of loop() is made at once.
StartInterruptVAD(v, loud) ==
    IF ~micInit THEN v ELSE LoopBody(v, nextLoop + 1, loud)

RECURSIVE RunCallbacks(_, _)
RunCallbacks(v, loud) ==
    IF v.rest = <<>> THEN v
    ELSE RunCallbacks(LoopBody([v EXCEPT !.rest = Tail(@)], Head(v.rest), loud[Head(v.rest)]), loud)

\* initAudio(rate): keep the engine when it exists at that rate, else destroy
\* it and create one; fed counts the chunks the engine in use was fed.
InitAudio(rate) ==
    /\ player' = TRUE
    /\ sampleRate' = rate
    /\ fed' = IF player /\ sampleRate = rate THEN fed ELSE 0

-----------------------------------------------------------------------------
(* ws.onmessage, one action per frame kind.  s is the WebSocket the frame  *)
(* arrives on.                                                             *)

\* case 'transcript'
OnTranscript(s, text) ==
    /\ socks[s] = "OPEN"
    /\ SetMessages(UAppend(Message(SessionMsgId(now), "user", text)), dirty, streamingId)
    /\ Ran("transcript", "")
    /\ UNCHANGED <<status, tasks, streamingId, tokAcc, doneId, lastUpd, attached, now>>
    /\ UNCHANGED <<sockVars, audioVars, recVars, vadVars>>

\* case 'assistant_start'
OnAssistantStart(s, loud) ==
    /\ socks[s] = "OPEN"
    /\ LET id == SessionMsgId(now)
           d1 == DirtyAfterSetStatus(dirty, "speaking")
           v0 == VadState(<<>>, loops, rafRef, player, "speaking", TRUE, 0, firstSent)
           v  == StartInterruptVAD(v0, loud)
       IN /\ streamingId' = id
          /\ SetMessages(UAppend(Message(id, "assistant", <<>>)), d1, id)
          /\ status' = v.status
          /\ player' = v.player
          /\ fed' = IF v.player THEN fed ELSE 0
          /\ loops' = v.next
          /\ rafRef' = v.rafRef
          /\ intrCount' = v.intr
          /\ firstSent' = v.firstSent
          /\ nextLoop' = IF micInit THEN nextLoop + 1 ELSE nextLoop
          /\ Step("assistant_start", IF v.status = "idle" THEN "barge-in" ELSE "")
    /\ streamSock' = s
    /\ UNCHANGED textFrames
    /\ tokAcc' = <<>> /\ lastUpd' = NoUpd /\ attached' = FALSE
    /\ UNCHANGED <<tasks, doneId, now, socks, socketRef, sampleRate, recVars>>

\* a token handler without the `if (streamingIdRef.current)` guard
OnTokenUnguarded(s, text) ==
    /\ socks[s] = "OPEN"
    /\ SetMessages(UToken(text), dirty, streamingId)
    /\ tokAcc' = tokAcc \o text
    /\ Ran("token", IF streamingId # NoId THEN "stream" ELSE "no stream")
    /\ UNCHANGED <<status, tasks, streamingId, doneId, lastUpd, attached, now>>
    /\ UNCHANGED <<sockVars, audioVars, recVars, vadVars>>

\* case 'token'
OnToken(s, text) ==
    /\ socks[s] = "OPEN"
    /\ IF streamingId # NoId
       THEN /\ SetMessages(UToken(text), dirty, streamingId)
            /\ tokAcc' = tokAcc \o text
            /\ Ran("token", "stream")
       ELSE /\ UNCHANGED <<messages, msgQueue, dirty, tokAcc>>
            /\ Ran("token", "no stream")
    /\ UNCHANGED <<status, tasks, streamingId, doneId, lastUpd, attached, now>>
    /\ UNCHANGED <<sockVars, audioVars, recVars, vadVars>>

\* case 'task_queue'
OnTaskQueue(s, tl) ==
    /\ socks[s] = "OPEN"
    /\ tasks' = tl
    /\ IF streamingId # NoId
       THEN SetMessages(UAttach(tl), TRUE, streamingId)
       ELSE dirty' = TRUE /\ UNCHANGED <<messages, msgQueue>>
    /\ lastUpd' = NoUpd
    /\ attached' = (streamingId # NoId)
    /\ Ran("task_queue", "")
    /\ UNCHANGED <<status, streamingId, tokAcc, doneId, now>>
    /\ UNCHANGED <<sockVars, audioVars, recVars, vadVars>>

\* case 'task_update'; tid = "" is a frame without task_id
OnTaskUpdate(s, tid, st) ==
    /\ socks[s] = "OPEN"
    /\ IF tid # ""
       THEN /\ tasks' = SetTaskStatus(tasks, tid, st)
            /\ IF streamingId # NoId
               THEN SetMessages(UTaskStatus(tid, st), TRUE, streamingId)
               ELSE dirty' = TRUE /\ UNCHANGED <<messages, msgQueue>>
       ELSE UNCHANGED <<tasks, messages, msgQueue, dirty>>
    /\ lastUpd' = IF tid # "" THEN Task(tid, st) ELSE lastUpd
    /\ Ran("task_update", "")
    /\ UNCHANGED <<status, streamingId, tokAcc, doneId, attached, now>>
    /\ UNCHANGED <<sockVars, audioVars, recVars, vadVars>>

\* case 'done'
OnDone(s, text) ==
    /\ socks[s] = "OPEN"
    /\ LET v == StopInterruptVAD(VadState(<<>>, loops, rafRef, player, status, dirty,
                                          intrCount, firstSent))
       IN loops' = v.next /\ rafRef' = v.rafRef
    /\ IF streamingId # NoId
       THEN /\ \E eager \in EagerChoices(UFinal(text), dirty) :
                 /\ messages' = IF eager THEN ApplyUpd(messages, UFinal(text), streamingId)
                                ELSE messages
                 /\ msgQueue' = IF eager THEN msgQueue ELSE Append(msgQueue, UFinal(text))
            /\ Ran("done", "stream")
       ELSE /\ UNCHANGED <<messages, msgQueue>>
            /\ Ran("done", "no stream")
    /\ streamingId' = NoId
    /\ doneId' = streamingId
    /\ lastUpd' = NoUpd /\ attached' = FALSE
    /\ status' = "idle"
    /\ tasks' = <<>>
    /\ dirty' = TRUE
    /\ UNCHANGED <<tokAcc, now, nextLoop, intrCount>>
    /\ UNCHANGED <<sockVars, audioVars, recVars>>

\* React renders: the queued updaters run in order, each reading the ref now
Render ==
    /\ dirty
    /\ messages' = View
    /\ msgQueue' = <<>>
    /\ dirty' = FALSE
    /\ Ran("render", "")
    /\ UNCHANGED <<status, tasks, streamingId, tokAcc, doneId, lastUpd, attached, now>>
    /\ UNCHANGED <<sockVars, audioVars, recVars, vadVars>>

\* Date.now() moves on
Tick ==
    /\ now' = now + 1
    /\ Ran("tick", "")
    /\ UNCHANGED <<status, msgVars>>
    /\ UNCHANGED <<sockVars, audioVars, recVars, vadVars>>

\* clearMessages
ClearMessages ==
    /\ SetMessages(UClear, dirty, streamingId)
    /\ Ran("clearMessages", "")
    /\ UNCHANGED <<status, tasks, streamingId, tokAcc, doneId, lastUpd, attached, now>>
    /\ UNCHANGED <<sockVars, audioVars, recVars, vadVars>>

\* A text frame that no case of the switch takes.  parses says whether
\* JSON.parse(e.data) returns an object: when it does the switch falls
\* through with no case taken; when it does not, JSON.parse throws, and
\* nothing in the handler catches it.
OnUnrecognised(s, parses) ==
    /\ socks[s] = "OPEN"
    /\ Ran("unrecognised", IF parses THEN "ignored" ELSE "threw")
    /\ UNCHANGED <<status, msgVars, now>>
    /\ UNCHANGED <<sockVars, audioVars, recVars, vadVars>>

\* case 'audio_format'; rate = 0 is a frame without sample_rate
OnAudioFormat(s, rate) ==
    /\ socks[s] = "OPEN"
    /\ IF rate # 0 /\ (rate # sampleRate \/ ~player)
       THEN InitAudio(rate)
       ELSE UNCHANGED audioVars
    /\ Ran("audio_format", "")
    /\ UNCHANGED <<status, msgVars, now>>
    /\ UNCHANGED <<sockVars, recVars, vadVars>>

\* e.data instanceof ArrayBuffer: a playback chunk
OnBinary(s) ==
    /\ socks[s] = "OPEN"
    /\ player' = TRUE
    /\ fed' = IF player THEN fed + 1 ELSE 1
    /\ Ran("binary", IF player THEN "" ELSE "new engine")
    /\ UNCHANGED <<status, msgVars, now, sampleRate>>
    /\ UNCHANGED <<sockVars, recVars, vadVars>>

-----------------------------------------------------------------------------
(* The transport.                                                          *)

\* connect
Connect ==
    /\ IF SockOpen
       THEN /\ UNCHANGED <<sockVars, audioVars>>
            /\ Ran("connect", "open")
       ELSE /\ InitAudio(24000)
            /\ socks' = Append(socks, "CONNECTING")
            /\ firstSent' = Append(firstSent, "none")
            /\ socketRef' = Len(socks) + 1
            /\ Ran("connect", IF SockConnecting THEN "in flight" ELSE "new")
    /\ UNCHANGED <<status, msgVars, now>>
    /\ UNCHANGED <<recVars, vadVars>>

\* ws.onopen of WebSocket s
SocketOpen(s) ==
    /\ socks[s] = "CONNECTING"
    /\ socks' = [socks EXCEPT ![s] = "OPEN"]
    /\ firstSent' = MarkSent(firstSent, s, "start")
    /\ status' = "idle"
    /\ dirty' = DirtyAfterSetStatus(dirty, "idle")
    /\ Ran("onopen", "")
    /\ UNCHANGED <<messages, msgQueue, tasks, streamingId, tokAcc, doneId, lastUpd, attached, now, socketRef>>
    /\ UNCHANGED <<audioVars, recVars, vadVars>>

\* ws.onclose of WebSocket s; failed says that ws.onerror ran just before it
SocketClose(s, failed) ==
    /\ socks[s] # "CLOSED"
    /\ socks' = [socks EXCEPT ![s] = "CLOSED"]
    /\ status' = "disconnected"
    /\ dirty' = DirtyAfterSetStatus(dirty, "disconnected")
    /\ Ran(IF failed THEN "onerror" ELSE "onclose", "")
    /\ UNCHANGED <<messages, msgQueue, tasks, streamingId, tokAcc, doneId, lastUpd, attached, now, socketRef, firstSent>>
    /\ UNCHANGED <<audioVars, recVars, vadVars>>

\* The refs and state disconnect works on
Ctrl ==
    [status |-> status, socks |-> socks, socketRef |-> socketRef, player |-> player,
     fed |-> fed, loops |-> loops, rafRef |-> rafRef, dirty |-> dirty]

\* socketRef.current?.close()
CloseSocket(ss, ref) ==
    IF ref # 0 /\ ss[ref] \in {"CONNECTING", "OPEN"} THEN [ss EXCEPT ![ref] = "CLOSING"] ELSE ss

\* a disconnect that closes everything but leaves the status as it is
DisconnectKeepingStatus(c) ==
    LET v == StopInterruptVAD(VadState(<<>>, c.loops, c.rafRef, FALSE, c.status,
                                       c.dirty, 0, <<>>))
    IN [status |-> c.status,
        socks |-> CloseSocket(c.socks, c.socketRef),
        socketRef |-> c.socketRef,
        player |-> FALSE,
        fed |-> 0,
        loops |-> v.next,
        rafRef |-> v.rafRef,
        dirty |-> v.dirty]

\* disconnect, as a function of the controller's state
DisconnectOf(c) ==
    LET v == StopInterruptVAD(VadState(<<>>, c.loops, c.rafRef, FALSE, "disconnected",
                                       c.dirty \/ c.status # "disconnected", 0, <<>>))
    IN [status |-> "disconnected",
        socks |-> CloseSocket(c.socks, c.socketRef),
        socketRef |-> c.socketRef,
        player |-> FALSE,
        fed |-> 0,
        loops |-> v.next,
        rafRef |-> v.rafRef,
        dirty |-> v.dirty]

\* disconnect
Disconnect ==
    /\ LET r == DisconnectOf(Ctrl)
       IN /\ status' = r.status /\ socks' = r.socks /\ socketRef' = r.socketRef
          /\ player' = r.player /\ fed' = r.fed /\ loops' = r.loops
          /\ rafRef' = r.rafRef /\ dirty' = r.dirty
    /\ Ran("disconnect", IF last[1] = "disconnect" THEN "again" ELSE "")
    /\ UNCHANGED <<messages, msgQueue, tasks, streamingId, tokAcc, doneId, lastUpd, attached, now, firstSent>>
    /\ UNCHANGED <<sampleRate, recVars, nextLoop, intrCount>>

\* a sendTextMessage that also refuses while the status is disconnected
SendTextMessageUnlessDisconnected(text) ==
    /\ IF SockOpen /\ status # "disconnected"
       THEN
            /\ SetMessages(UAppend(Message(TextMsgId(now), "user", text)), dirty, streamingId)
            /\ firstSent' = MarkSent(firstSent, socketRef, "text_input")
            /\ textFrames' = Append(textFrames, text)
            /\ status' = "processing"
            /\ Step("sendTextMessage", "sent")
       ELSE /\ UNCHANGED <<messages, msgQueue, dirty, firstSent, textFrames, status>>
            /\ Step("sendTextMessage", "ignored")
    /\ UNCHANGED streamSock
    /\ UNCHANGED <<tasks, streamingId, tokAcc, doneId, lastUpd, attached, now, socks, socketRef>>
    /\ UNCHANGED <<audioVars, recVars, vadVars>>

\* a sendTextMessage that asks only for a WebSocket, whatever its readyState
SendTextMessageUnchecked(text) ==
    /\ IF socketRef # 0
       THEN
            /\ SetMessages(UAppend(Message(TextMsgId(now), "user", text)), dirty, streamingId)
            /\ firstSent' = MarkSent(firstSent, socketRef, "text_input")
            /\ textFrames' = Append(textFrames, text)
            /\ status' = "processing"
            /\ Step("sendTextMessage", "sent")
       ELSE /\ UNCHANGED <<messages, msgQueue, dirty, firstSent, textFrames, status>>
            /\ Step("sendTextMessage", "ignored")
    /\ UNCHANGED streamSock
    /\ UNCHANGED <<tasks, streamingId, tokAcc, doneId, lastUpd, attached, now, socks, socketRef>>
    /\ UNCHANGED <<audioVars, recVars, vadVars>>

\* sendTextMessage(text)
SendTextMessage(text) ==
    /\ IF SockOpen
       THEN
            /\ SetMessages(UAppend(Message(TextMsgId(now), "user", text)), dirty, streamingId)
            /\ firstSent' = MarkSent(firstSent, socketRef, "text_input")
            /\ textFrames' = Append(textFrames, text)
            /\ status' = "processing"
            /\ Step("sendTextMessage", "sent")
       ELSE /\ UNCHANGED <<messages, msgQueue, dirty, firstSent, textFrames, status>>
            /\ Step("sendTextMessage", "ignored")
    /\ UNCHANGED streamSock
    /\ UNCHANGED <<tasks, streamingId, tokAcc, doneId, lastUpd, attached, now, socks, socketRef>>
    /\ UNCHANGED <<audioVars, recVars, vadVars>>

-----------------------------------------------------------------------------
(* Recording.                                                              *)

MinBlobSize == 1000

\* a threshold that lets a blob of exactly the minimum size through
LongEnoughInclusive(size) == size >= MinBlobSize

\* blob.size > 1000
LongEnough(size) == size > MinBlobSize

\* Blob sizes a stopped recorder can deliver: nothing, the threshold, above it
BlobSizes == {0, MinBlobSize, MinBlobSize + 1}

\* size is the size of the blob made of the chunks, known when the recorder stops
Recorder(st, onstop, size) == [state |-> st, onstop |-> onstop, size |-> size]

\* startRecording from `const stream = micStreamRef.current` on: a new
\* MediaRecorder with the sending onstop, recorder.start(), status listening
NewRecorder(d) ==
    /\ recs' = Append(recs, Recorder("recording", "send", 0))
    /\ recorderRef' = Len(recs) + 1
    /\ status' = "listening"
    /\ dirty' = (d \/ status # "listening")

\* startRecording up to its first suspension.  Without a microphone it calls
\* initMic: api says whether navigator.mediaDevices.getUserMedia exists.
StartRecording(api) ==
    /\ IF micInit
       THEN /\ NewRecorder(dirty)
            /\ UNCHANGED <<micInit, micWaits, micFailed>>
            /\ Ran("startRecording", "recording")
       ELSE IF api
       THEN /\ micWaits' = micWaits + 1
            /\ UNCHANGED <<micInit, micFailed, recs, recorderRef, status, dirty>>
            /\ Ran("startRecording", "waiting")
       ELSE /\ status' = "disconnected"
            /\ dirty' = DirtyAfterSetStatus(dirty, "disconnected")
            /\ micFailed' = TRUE
            /\ UNCHANGED <<micInit, micWaits, recs, recorderRef>>
            /\ Ran("startRecording", "no api")
    /\ UNCHANGED <<messages, msgQueue, tasks, streamingId, tokAcc, doneId, lastUpd, attached, now, blobs, sentBin>>
    /\ UNCHANGED <<sockVars, audioVars, vadVars>>

\* getUserMedia resolves: initMic stores the stream, startRecording goes on
MicGranted ==
    /\ micWaits > 0
    /\ micWaits' = micWaits - 1
    /\ micInit' = TRUE
    /\ micFailed' = FALSE
    /\ NewRecorder(dirty)
    /\ Ran("getUserMedia", "granted")
    /\ UNCHANGED <<messages, msgQueue, tasks, streamingId, tokAcc, doneId, lastUpd, attached, now, blobs, sentBin>>
    /\ UNCHANGED <<sockVars, audioVars, vadVars>>

\* getUserMedia rejects: initMic sets disconnected; startRecording returns
\* unless another call has stored a stream in the meantime
MicDenied ==
    /\ micWaits > 0
    /\ micWaits' = micWaits - 1
    /\ IF micInit
       THEN NewRecorder(DirtyAfterSetStatus(dirty, "disconnected"))
       ELSE /\ status' = "disconnected"
            /\ dirty' = DirtyAfterSetStatus(dirty, "disconnected")
            /\ UNCHANGED <<recs, recorderRef>>
    /\ micFailed' = TRUE
    /\ Ran("getUserMedia", "denied")
    /\ UNCHANGED <<micInit, messages, msgQueue, tasks, streamingId, tokAcc, doneId, lastUpd, attached, now, blobs, sentBin>>
    /\ UNCHANGED <<sockVars, audioVars, vadVars>>

Recording == recorderRef # 0 /\ recs[recorderRef].state = "recording"

\* stopRecording: recorder.stop() makes the recorder inactive at once and
\* fires its stop event later
StopRecording ==
    /\ IF Recording
       THEN /\ recs' = [recs EXCEPT ![recorderRef].state = "stopping"]
            /\ Ran("stopRecording", "stopped")
       ELSE /\ UNCHANGED recs
            /\ Ran("stopRecording", "ignored")
    /\ UNCHANGED <<status, msgVars, now, micInit, micWaits, micFailed, recorderRef, blobs, sentBin>>
    /\ UNCHANGED <<sockVars, audioVars, vadVars>>

\* a cancelRecording that stops the recorder and leaves its onstop
CancelRecordingKeepingOnStop ==
    /\ IF Recording
       THEN /\ recs' = [recs EXCEPT ![recorderRef].state = "stopping"]
            /\ Ran("cancelRecording", "stopped")
       ELSE /\ UNCHANGED recs
            /\ Ran("cancelRecording", "ignored")
    /\ UNCHANGED <<status, msgVars, now, micInit, micWaits, micFailed, recorderRef, blobs, sentBin>>
    /\ UNCHANGED <<sockVars, audioVars, vadVars>>

\* cancelRecording: as stopRecording, with onstop replaced by () => setStatus('idle')
CancelRecording ==
    /\ IF Recording
       THEN /\ recs' = [recs EXCEPT ![recorderRef] = Recorder("stopping", "idle", 0)]
            /\ Ran("cancelRecording", "stopped")
       ELSE /\ UNCHANGED recs
            /\ Ran("cancelRecording", "ignored")
    /\ UNCHANGED <<status, msgVars, now, micInit, micWaits, micFailed, recorderRef, blobs, sentBin>>
    /\ UNCHANGED <<sockVars, audioVars, vadVars>>

\* The stop event of recorder r, whose chunks make a blob of `size` bytes
RecorderOnStop(r, size) ==
    /\ recs[r].state = "stopping"
    /\ recs' = [recs EXCEPT ![r].state = "inactive", ![r].size = size]
    /\ IF recs[r].onstop = "idle"
       THEN /\ status' = "idle"
            /\ dirty' = DirtyAfterSetStatus(dirty, "idle")
            /\ UNCHANGED blobs
            /\ Ran("onstop", "cancelled")
       ELSE IF LongEnough(size)
       THEN IF SockOpen
            THEN /\ status' = "processing"
                 /\ dirty' = DirtyAfterSetStatus(dirty, "processing")
                 /\ blobs' = blobs + 1
                 /\ Ran("onstop", "sending")
            ELSE /\ UNCHANGED <<status, dirty, blobs>>
                 /\ Ran("onstop", "not open")
       ELSE /\ status' = "idle"
            /\ dirty' = DirtyAfterSetStatus(dirty, "idle")
            /\ UNCHANGED blobs
            /\ Ran("onstop", "too short")
    /\ UNCHANGED <<messages, msgQueue, tasks, streamingId, tokAcc, doneId, lastUpd, attached, now>>
    /\ UNCHANGED <<micInit, micWaits, micFailed, recorderRef, sentBin>>
    /\ UNCHANGED <<sockVars, audioVars, vadVars>>

\* blob.arrayBuffer() resolves: socketRef.current?.send(buffer)
BlobReady ==
    /\ blobs > 0
    /\ blobs' = blobs - 1
    /\ IF SockOpen
       THEN /\ sentBin' = sentBin + 1
            /\ firstSent' = MarkSent(firstSent, socketRef, "binary")
            /\ Ran("arrayBuffer", "sent")
       ELSE /\ UNCHANGED <<sentBin, firstSent>>
            /\ Ran("arrayBuffer", "dropped")
    /\ UNCHANGED <<status, msgVars, now, socks, socketRef>>
    /\ UNCHANGED <<micInit, micWaits, micFailed, recs, recorderRef>>
    /\ UNCHANGED <<audioVars, vadVars>>

-----------------------------------------------------------------------------
(* Barge-in.                                                               *)

\* One animation frame: the requested callbacks of the barge-in loops run
\* oldest first; loud[L] says whether loop L reads vol > 30 from its analyser.
AnimationFrame(loud) ==
    /\ loops # <<>>
    /\ LET v == RunCallbacks(VadState(loops, <<>>, rafRef, player, status, dirty,
                                      intrCount, firstSent), loud)
       IN /\ loops' = v.next
          /\ rafRef' = v.rafRef
          /\ player' = v.player
          /\ fed' = IF v.player THEN fed ELSE 0
          /\ status' = v.status
          /\ dirty' = v.dirty
          /\ intrCount' = v.intr
          /\ firstSent' = v.firstSent
          /\ Ran("frame", IF \E L \in SeqSet(loops) : loud[L] THEN "loud" ELSE "quiet")
    /\ UNCHANGED <<messages, msgQueue, tasks, streamingId, tokAcc, doneId, lastUpd, attached, now>>
    /\ UNCHANGED <<socks, socketRef, sampleRate, nextLoop, recVars>>

-----------------------------------------------------------------------------
(* The recording monitor: monitorVAD(stream, recorder) of                  *)
(* src/hooks/useJarvis.ts.  Its loop samples the analyser once per         *)
(* animation frame and counts 16 ms for every frame.  startRecording does  *)
(* not call it ("VAD removed - manual stop only").                         *)

FrameMs == 16
SpeechMinMs == 300
SilenceMaxMs == 2500

\* a confirmation that comes one frame early
SpeechConfirmedEarly(ms) == ms > SpeechMinMs - FrameMs

\* speechDurationMs > 300
SpeechConfirmed(ms) == ms > SpeechMinMs

\* speechSeen && silenceMs > 2500
SilenceStops(seen, ms) == seen /\ ms > SilenceMaxMs

\* the closure before monitorVAD is called
MonitorOff ==
    /\ monRec = 0
    /\ speechSeen = FALSE /\ speechDurationMs = 0 /\ silenceMs = 0
    /\ loudRun = 0 /\ quietRun = 0 /\ monEnd = ""

\* stopRecording() as the loop calls it: on recorderRef.current
Stopped(rs, ref) ==
    IF ref # 0 /\ rs[ref].state = "recording"
    THEN [rs EXCEPT ![ref].state = "stopping"]
    ELSE rs

\* One run of loop(): loud is vol > 30, late is Date.now() - startTime > 30000
MonitorFrame(loud, late) ==
    /\ monRec # 0
    /\ IF recs[monRec].state # "recording"
       THEN /\ monRec' = 0
            /\ monEnd' = "ended"
            /\ last' = Last("monitor", "ended")
            /\ UNCHANGED <<recs, speechSeen, speechDurationMs, silenceMs, loudRun, quietRun>>
       ELSE IF late
       THEN /\ recs' = Stopped(recs, recorderRef)
            /\ monRec' = 0
            /\ monEnd' = "timeout"
            /\ last' = Last("monitor", "timeout")
            /\ UNCHANGED <<speechSeen, speechDurationMs, silenceMs, loudRun, quietRun>>
       ELSE /\ IF loud THEN loudRun < MaxRun ELSE quietRun < MaxRun
            /\ LET sd == IF loud THEN speechDurationMs + FrameMs ELSE 0
                   seen == speechSeen \/ (loud /\ SpeechConfirmed(sd))
                   sil == IF loud THEN 0
                          ELSE IF speechSeen THEN silenceMs + FrameMs ELSE silenceMs
               IN /\ speechDurationMs' = sd
                  /\ speechSeen' = seen
                  /\ silenceMs' = sil
                  /\ loudRun' = IF loud THEN loudRun + 1 ELSE 0
                  /\ quietRun' = IF loud THEN 0 ELSE quietRun + 1
                  /\ IF SilenceStops(seen, sil)
                     THEN /\ recs' = Stopped(recs, recorderRef)
                          /\ monRec' = 0
                          /\ monEnd' = "silence"
                          /\ last' = Last("monitor", "silence")
                     ELSE /\ UNCHANGED <<recs, monRec, monEnd>>
                          /\ last' = Last("monitor", IF loud THEN "loud" ELSE "quiet")
    /\ UNCHANGED <<status, msgVars, now, micInit, micWaits, micFailed, recorderRef, blobs, sentBin>>
    /\ UNCHANGED <<sockVars, audioVars, vadVars, textFrames, streamSock, sessVars, budget>>

-----------------------------------------------------------------------------
(* The session: the effects on the sessionId prop and the history fetch.   *)

SessionIds == {"A", "B"}

\* history.map(msg => ({id: msg.id.toString(), source: .., text: msg.content}))
\* for the stored history of session id: one assistant message
HistoryOf(id) == Message(<<"db", id>>, "assistant", <<id>>)

\* A render with a new sessionId prop runs both effects of the hook, in
\* order: the ref is updated and the WebSocket closed and dropped, then the
\* list is cleared and, for a session, its history requested.
SessionChanged(id) ==
    /\ id # session
    /\ session' = id
    /\ IF id # "" /\ id # sessionIdRef
       THEN /\ sessionIdRef' = id
            /\ socks' = CloseSocket(socks, socketRef)
            /\ socketRef' = 0
       ELSE UNCHANGED <<sessionIdRef, socks, socketRef>>
    /\ SetMessages(UClear, dirty, streamingId)
    /\ fetches' = IF id # "" THEN Append(fetches, id) ELSE fetches
    /\ budget > 0 /\ budget' = budget - 1
    /\ last' = Last("sessionId", id)
    /\ UNCHANGED <<status, tasks, streamingId, tokAcc, doneId, lastUpd, attached, now, firstSent>>
    /\ UNCHANGED <<audioVars, recVars, vadVars, monVars, textFrames, streamSock>>

\* getSessionHistory(..).then: the i-th pending request resolves
HistoryLoaded(i) ==
    /\ i \in DOMAIN fetches
    /\ fetches' = [j \in 1..(Len(fetches) - 1) |-> IF j < i THEN fetches[j] ELSE fetches[j + 1]]
    /\ SetMessages(USet(HistoryOf(fetches[i])), dirty, streamingId)
    /\ budget > 0 /\ budget' = budget - 1
    /\ last' = Last("history", fetches[i])
    /\ UNCHANGED <<status, tasks, streamingId, tokAcc, doneId, lastUpd, attached, now>>
    /\ UNCHANGED <<session, sessionIdRef>>
    /\ UNCHANGED <<sockVars, audioVars, recVars, vadVars, monVars, textFrames, streamSock>>

\* getSessionHistory(..).catch: the i-th pending request fails
HistoryFailed(i) ==
    /\ i \in DOMAIN fetches
    /\ fetches' = [j \in 1..(Len(fetches) - 1) |-> IF j < i THEN fetches[j] ELSE fetches[j + 1]]
    /\ budget > 0 /\ budget' = budget - 1
    /\ last' = Last("historyFailed", fetches[i])
    /\ UNCHANGED <<status, msgVars, now>>
    /\ UNCHANGED <<session, sessionIdRef>>
    /\ UNCHANGED <<sockVars, audioVars, recVars, vadVars, monVars, textFrames, streamSock>>

-----------------------------------------------------------------------------
(* Inputs.                                                                 *)

TokenTexts == {<<"a">>, <<"b">>}            \* msg.text of token frames
FinalTexts == {<<"z">>}                     \* msg.assistant_text of done frames
UserTexts == {<<"u">>}                      \* transcripts and typed text
TypedTexts == {<<"u">>, <<"v">>}            \* the argument of sendTextMessage
TaskIds == {"t1"}
TaskLists == {<<>>, <<Task("t1", "queued")>>,
              <<Task("t1", "queued"), Task("t2", "running")>>}
SampleRates == {0, 16000, 24000}
Sockets == DOMAIN socks

-----------------------------------------------------------------------------
(* The controller from construction on.                                    *)

\* The hook after its first render: every ref and state at its initial value
Constructed ==
    /\ status = "disconnected"
    /\ messages = <<>> /\ msgQueue = <<>> /\ dirty = FALSE
    /\ tasks = <<>>
    /\ streamingId = NoId
    /\ now = 0
    /\ socks = <<>> /\ socketRef = 0 /\ firstSent = <<>>
    /\ player = FALSE /\ sampleRate = 24000 /\ fed = 0
    /\ micInit = FALSE /\ micWaits = 0 /\ micFailed = FALSE
    /\ recs = <<>> /\ recorderRef = 0 /\ blobs = 0 /\ sentBin = 0
    /\ loops = <<>> /\ nextLoop = 0 /\ rafRef = 0
    /\ MonitorOff /\ textFrames = <<>> /\ streamSock = 0
    /\ session = "" /\ sessionIdRef = "" /\ fetches = <<>>
    /\ tokAcc = <<>> /\ intrCount = 0
    /\ doneId = NoId /\ lastUpd = NoUpd /\ attached = FALSE
    /\ last = Last("init", "")

Init == Constructed /\ budget = StepsCtrl

\* The connection, the recorder and typed input
Next ==
    \/ Connect
    \/ \E s \in Sockets : SocketOpen(s)
    \/ \E s \in Sockets, failed \in BOOLEAN : SocketClose(s, failed)
    \/ Disconnect
    \/ \E text \in UserTexts : SendTextMessage(text)
    \/ \E api \in BOOLEAN : StartRecording(api)
    \/ MicGranted
    \/ MicDenied
    \/ StopRecording
    \/ CancelRecording
    \/ \E r \in DOMAIN recs, size \in BlobSizes : RecorderOnStop(r, size)
    \/ BlobReady
    \/ Render

Spec == Init /\ [][Next]_vars

\* The callbacks the browser has queued for the hook: the stop event of a
\* stopped recorder, the resolution of blob.arrayBuffer(), React's render
Callbacks ==
    \/ \E r \in DOMAIN recs, size \in BlobSizes : RecorderOnStop(r, size)
    \/ BlobReady
    \/ Render

\* The same controller on an event loop that runs every queued callback.
\* Calls of the hook's functions and transport events may never come.
SpecLive == Init /\ [][Next]_vars /\ WF_vars(Callbacks)

-----------------------------------------------------------------------------
(* The message store on an open connection: the controller after connect   *)
(* and ws.onopen, and the frames and calls that change messages and tasks. *)

\* After connect and ws.onopen, rendered
Connected ==
    /\ status = "idle"
    /\ messages = <<>> /\ msgQueue = <<>> /\ dirty = FALSE
    /\ tasks = <<>>
    /\ streamingId = NoId
    /\ now = 0
    /\ socks = <<"OPEN">> /\ socketRef = 1 /\ firstSent = <<"start">>
    /\ player = TRUE /\ sampleRate = 24000 /\ fed = 0
    /\ micInit = FALSE /\ micWaits = 0 /\ micFailed = FALSE
    /\ recs = <<>> /\ recorderRef = 0 /\ blobs = 0 /\ sentBin = 0
    /\ loops = <<>> /\ nextLoop = 0 /\ rafRef = 0
    /\ MonitorOff /\ textFrames = <<>> /\ streamSock = 0
    /\ session = "" /\ sessionIdRef = "" /\ fetches = <<>>
    /\ tokAcc = <<>> /\ intrCount = 0
    /\ doneId = NoId /\ lastUpd = NoUpd /\ attached = FALSE
    /\ last = Last("init", "")

InitStream == Connected /\ budget = StepsStream

NextStream ==
    \/ \E s \in Sockets : OnAssistantStart(s, FALSE)
    \/ \E s \in Sockets, text \in TokenTexts : OnToken(s, text)
    \/ \E s \in Sockets, text \in FinalTexts : OnDone(s, text)
    \/ \E s \in Sockets, text \in UserTexts : OnTranscript(s, text)
    \/ \E text \in UserTexts : SendTextMessage(text)
    \/ ClearMessages
    \/ \E s \in Sockets, parses \in BOOLEAN : OnUnrecognised(s, parses)
    \/ Render
    \/ Tick

SpecStream == InitStream /\ [][NextStream]_vars

-----------------------------------------------------------------------------
(* Task tracking on an open connection: the frames that change the live    *)
(* task list and the task list of the streaming message.                   *)

InitTasks == Connected /\ budget = StepsTasks

NextTasks ==
    \/ \E s \in Sockets : OnAssistantStart(s, FALSE)
    \/ \E s \in Sockets, tl \in TaskLists : OnTaskQueue(s, tl)
    \/ \E s \in Sockets, tid \in TaskIds \cup {"t3", ""}, st \in TaskStatuses :
          OnTaskUpdate(s, tid, st)
    \/ \E s \in Sockets, text \in FinalTexts : OnDone(s, text)
    \/ Render
    \/ Tick

SpecTasks == InitTasks /\ [][NextTasks]_vars

-----------------------------------------------------------------------------
(* Playback and barge-in: the controller from construction, or connected   *)
(* with the microphone acquired by an earlier recording, and the frames    *)
(* and calls that start, run and stop the barge-in loops.                  *)

\* Connected, with the microphone acquired by an earlier recording
VoiceReady ==
    /\ status = "idle"
    /\ messages = <<>> /\ msgQueue = <<>> /\ dirty = FALSE
    /\ tasks = <<>>
    /\ streamingId = NoId
    /\ now = 0
    /\ socks = <<"OPEN">> /\ socketRef = 1 /\ firstSent = <<"start">>
    /\ player = TRUE /\ sampleRate = 24000 /\ fed = 0
    /\ micInit = TRUE /\ micWaits = 0 /\ micFailed = FALSE
    /\ recs = <<>> /\ recorderRef = 0 /\ blobs = 0 /\ sentBin = 0
    /\ loops = <<>> /\ nextLoop = 0 /\ rafRef = 0
    /\ MonitorOff /\ textFrames = <<>> /\ streamSock = 0
    /\ session = "" /\ sessionIdRef = "" /\ fetches = <<>>
    /\ tokAcc = <<>> /\ intrCount = 0
    /\ doneId = NoId /\ lastUpd = NoUpd /\ attached = FALSE
    /\ last = Last("init", "")

InitBarge == (Constructed \/ VoiceReady) /\ budget = StepsBarge

NextBarge ==
    \/ Connect
    \/ \E s \in Sockets : SocketOpen(s)
    \/ \E s \in Sockets, failed \in BOOLEAN : SocketClose(s, failed)
    \/ Disconnect
    \/ \E text \in UserTexts : SendTextMessage(text)
    \/ \E loud \in [SeqSet(loops) -> BOOLEAN] : AnimationFrame(loud)
    \/ \E s \in Sockets, loud \in BOOLEAN : OnAssistantStart(s, loud)
    \/ \E s \in Sockets, text \in FinalTexts : OnDone(s, text)
    \/ \E s \in Sockets : OnBinary(s)
    \/ StartRecording(TRUE)
    \/ StopRecording
    \/ \E r \in DOMAIN recs, size \in BlobSizes : RecorderOnStop(r, size)
    \/ BlobReady
    \/ Render

SpecBarge == InitBarge /\ [][NextBarge]_vars

-----------------------------------------------------------------------------
(* A recording watched by the recording monitor: connected, the recorder   *)
(* started, monitorVAD called with it.                                     *)

Monitored ==
    /\ status = "listening"
    /\ messages = <<>> /\ msgQueue = <<>> /\ dirty = FALSE
    /\ tasks = <<>>
    /\ streamingId = NoId
    /\ now = 0
    /\ socks = <<"OPEN">> /\ socketRef = 1 /\ firstSent = <<"start">>
    /\ player = TRUE /\ sampleRate = 24000 /\ fed = 0
    /\ micInit = TRUE /\ micWaits = 0 /\ micFailed = FALSE
    /\ recs = <<Recorder("recording", "send", 0)>> /\ recorderRef = 1
    /\ blobs = 0 /\ sentBin = 0
    /\ loops = <<>> /\ nextLoop = 0 /\ rafRef = 0
    /\ monRec = 1
    /\ speechSeen = FALSE /\ speechDurationMs = 0 /\ silenceMs = 0
    /\ loudRun = 0 /\ quietRun = 0 /\ monEnd = "" /\ textFrames = <<>> /\ streamSock = 0
    /\ session = "" /\ sessionIdRef = "" /\ fetches = <<>>
    /\ tokAcc = <<>> /\ intrCount = 0
    /\ doneId = NoId /\ lastUpd = NoUpd /\ attached = FALSE
    /\ last = Last("init", "")

InitMonitor == Monitored /\ budget = StepsMonitor

NextMonitor ==
    \/ \E loud \in BOOLEAN, late \in BOOLEAN : MonitorFrame(loud, late)
    \/ StopRecording
    \/ \E r \in DOMAIN recs, size \in BlobSizes : RecorderOnStop(r, size)
    \/ BlobReady
    \/ Render

SpecMonitor == InitMonitor /\ [][NextMonitor]_vars

-----------------------------------------------------------------------------
(* Typed input from construction on: the connection in every readyState    *)
(* and sendTextMessage with different texts.                               *)

InitTyped == Constructed /\ budget = StepsTyped

NextTyped ==
    \/ Connect
    \/ \E s \in Sockets : SocketOpen(s)
    \/ \E s \in Sockets, failed \in BOOLEAN : SocketClose(s, failed)
    \/ Disconnect
    \/ \E text \in TypedTexts : SendTextMessage(text)
    \/ Render
    \/ Tick

SpecTyped == InitTyped /\ [][NextTyped]_vars

-----------------------------------------------------------------------------
(* Sessions on an open connection: the sessionId prop changes, history     *)
(* responses arrive, and messages are appended meanwhile.                  *)

InitHistory == Connected /\ budget = StepsHistory

NextHistory ==
    \/ \E id \in SessionIds \cup {""} : SessionChanged(id)
    \/ \E i \in DOMAIN fetches : HistoryLoaded(i)
    \/ \E i \in DOMAIN fetches : HistoryFailed(i)
    \/ Connect
    \/ \E s \in Sockets : SocketOpen(s)
    \/ \E text \in UserTexts : SendTextMessage(text)
    \/ \E s \in Sockets, text \in UserTexts : OnTranscript(s, text)
    \/ Render

SpecHistory == InitHistory /\ [][NextHistory]_vars

-----------------------------------------------------------------------------
(* Properties of the message store.                                        *)

\* The assistant messages of list ms that carry id
StreamIdx(ms, id) == {i \in DOMAIN ms : ms[i].id = id /\ ms[i].source = "assistant"}

MaxOf(S) == CHOOSE x \in S : \A y \in S : y <= x

\* The message the last assistant_start created, in list ms
StreamMsg(ms, id) == ms[MaxOf(StreamIdx(ms, id))]

\* C1: while a stream is active, the text of the message the last
\* assistant_start created is the concatenation of the token payloads received
\* since that assistant_start, in arrival order (as the next render shows it).
C1_TokensInArrivalOrder ==
    (streamingId # NoId /\ StreamIdx(View, streamingId) # {})
        => StreamMsg(View, streamingId).text = tokAcc

\* Two different tokens have been appended to the streaming message
C1_Witness ==
    /\ last = Last("token", "stream")
    /\ tokAcc = <<"a", "b">>
    /\ msgQueue = <<>>
    /\ StreamIdx(messages, streamingId) # {}
    /\ StreamMsg(messages, streamingId).text = <<"a", "b">>

\* C2 (as claimed): once a done frame has closed a stream, the message of that
\* stream shows the frame's assistant_text, whatever the tokens had made of it.
C2_DoneReplacesText ==
    last = Last("done", "stream")
        => \A i \in StreamIdx(View, doneId) : View[i].text \in FinalTexts

\* C3: a done frame leaves the stream pointer null, and a token frame handled
\* while the pointer is null changes neither the message list nor the queued
\* updates of it.
C3_TokenWithoutStream ==
    [][/\ last'[1] = "done" => streamingId' = NoId
       /\ (last'[1] = "token" /\ streamingId = NoId)
            => (messages' = messages /\ msgQueue' = msgQueue /\ View' = View)]_vars

\* A token frame was handled after a done frame had closed a stream
C3_Witness ==
    /\ last = Last("token", "no stream")
    /\ doneId # NoId
    /\ streamingId = NoId
    /\ View # <<>>

-----------------------------------------------------------------------------
(* Properties of the task lists.                                           *)

\* queued -> running -> (complete | failed)
Rank(st) == CASE st = "queued" -> 0 [] st = "running" -> 1 [] OTHER -> 2

\* No task of list a has a lower rank in list b
NoRegress(a, b) ==
    \A i \in DOMAIN a, j \in DOMAIN b :
        a[i].id = b[j].id => Rank(b[j].status) >= Rank(a[i].status)

\* C4 (as claimed): no frame moves a task back, neither in the live task list
\* nor in the task list attached to a message.
C4_TaskStatusMonotonic ==
    [][/\ NoRegress(tasks, tasks')
       /\ \A i \in DOMAIN messages :
            i \in DOMAIN messages' => NoRegress(messages[i].tasks, messages'[i].tasks)]_vars

Listed(tl, tid) == \E i \in DOMAIN tl : tl[i].id = tid

\* Task list tl shows the task of update u with the status of u
Shows(tl, u) ==
    /\ Listed(tl, u.id)
    /\ \A i \in DOMAIN tl : tl[i].id = u.id => tl[i].status = u.status

-----------------------------------------------------------------------------
(* Properties of the recorder, typed input and the connection.             *)

\* C5: when the stop event of a recorder delivers a blob of at most
\* MinBlobSize bytes, no blob is handed on for sending, no binary frame is
\* sent, and the status after the handler is idle.
C5_ShortRecordingDiscarded ==
    [][\A r \in DOMAIN recs :
          (recs[r].state = "stopping" /\ recs'[r].state = "inactive"
             /\ recs'[r].size <= MinBlobSize)
          => (blobs' = blobs /\ sentBin' = sentBin /\ status' = "idle")]_vars

\* A recording made on an open connection stopped with a blob of exactly
\* MinBlobSize bytes
C5_Witness ==
    /\ last = Last("onstop", "too short")
    /\ \E r \in DOMAIN recs : recs[r].state = "inactive" /\ recs[r].size = MinBlobSize
    /\ SockOpen
    /\ status = "idle" /\ blobs = 0 /\ sentBin = 0

\* C9 (as claimed): sendTextMessage called while the status is listening or
\* speaking sends nothing, appends no message and leaves the status.
C9_TextIgnoredWhileBusy ==
    [][(last'[1] = "sendTextMessage" /\ status \in {"listening", "speaking"})
          => (last'[2] = "ignored" /\ UNCHANGED <<status, messages, msgQueue>>)]_vars

\* C10 (as claimed): connect called while the current WebSocket is still
\* CONNECTING creates no WebSocket and leaves socketRef.
C10_ConnectInFlightNoOp ==
    [][(last'[1] = "connect" /\ SockConnecting)
          => (socks' = socks /\ socketRef' = socketRef)]_vars

-----------------------------------------------------------------------------
(* Properties of barge-in and disconnect.                                  *)

\* C6 (as claimed): an animation frame in which a barge-in loop hears the
\* user while the status is speaking leaves exactly one interrupt frame sent
\* for the turn, and no playback engine.
C6_OneInterruptPerBargeIn ==
    [][(last'[1] = "frame" /\ last'[2] = "loud" /\ status = "speaking")
          => (intrCount' = 1 /\ ~player')]_vars

\* C7: disconnect leaves the status disconnected, whatever the state it is
\* called in, and a second call right after the first changes nothing.
C7_DisconnectIdempotent ==
    [][last'[1] = "disconnect"
          => /\ status' = "disconnected"
             /\ DisconnectOf(DisconnectOf(Ctrl)) = DisconnectOf(Ctrl)
             /\ last'[2] = "again"
                  => UNCHANGED <<status, msgVars, now, sockVars, audioVars, recVars, vadVars>>]_vars

\* disconnect called twice in a row after a turn had started a barge-in loop
C7_Witness ==
    /\ last = Last("disconnect", "again")
    /\ status = "disconnected"
    /\ nextLoop > 0
    /\ socketRef # 0 /\ socks[socketRef] = "CLOSING"
    /\ ~player /\ loops = <<>>

-----------------------------------------------------------------------------
(* Properties of the status across the life of a connection.               *)

\* The handlers no caller of the hook starts: recorder and promise
\* callbacks, animation frames, renders
InternalEvents == {"onstop", "arrayBuffer", "getUserMedia", "frame", "render"}

\* The current WebSocket has closed and the status says so; connect has not
\* been called since (it would replace socketRef with a connecting socket)
ClosedAndDisconnected ==
    status = "disconnected" /\ socketRef # 0 /\ socks[socketRef] = "CLOSED"

\* C11 (as claimed): once the transport has closed and the status is
\* disconnected, no internal event moves the status out of disconnected.
C11_StaysDisconnected ==
    [][(ClosedAndDisconnected /\ last'[1] \in InternalEvents)
          => status' = "disconnected"]_vars

\* C12 (as claimed): while the current WebSocket has not opened the status
\* does not become idle, and the first frame handed to a WebSocket is start.
C12_IdleAfterOpenStartFirst ==
    [][/\ (status # "idle" /\ status' = "idle" /\ socketRef' # 0)
            => socks'[socketRef'] # "CONNECTING"
       /\ \A s \in DOMAIN firstSent' : firstSent'[s] \in {"none", "start"}]_vars

\* C13 (as claimed): no binary frame is sent while the status is speaking.
C13_NoBinaryWhileSpeaking ==
    [][sentBin' > sentBin => status # "speaking"]_vars

-----------------------------------------------------------------------------
(* Properties of frames the handler does not recognise.                    *)

\* C14 (as claimed): a text frame that is not valid JSON, or whose type is
\* no case of the switch, ends the handler without an exception and leaves
\* the status, the messages, the live tasks and the stream pointer.
C14_UnrecognisedFrameIgnored ==
    [][last'[1] = "unrecognised"
          => /\ last'[2] = "ignored"
             /\ UNCHANGED <<status, messages, msgQueue, tasks, streamingId>>]_vars

\* The updaters a step has added to the queue
Queued == SubSeq(msgQueue', Len(msgQueue) + 1, Len(msgQueue'))

\* C15: a task_update frame whose task id is in neither the live task list
\* nor the task list of any message leaves the live list as it is, renders
\* nothing, and queues only updaters that leave every message (its task list
\* included) as the next render would have shown it.
C15_UnknownTaskIgnored ==
    [][last'[1] = "task_update"
          => LET shown == View
                 tid == lastUpd'.id
             IN (/\ ~Listed(tasks, tid)
                 /\ \A i \in DOMAIN shown : ~Listed(shown[i].tasks, tid))
                   => /\ tasks' = tasks
                      /\ messages' = messages
                      /\ SubSeq(msgQueue', 1, Len(msgQueue)) = msgQueue
                      /\ ApplyAll(shown, Queued, streamingId') = shown]_vars

\* A task_update for t3 arrived in a turn whose lists hold other tasks
C15_Witness ==
    /\ last = Last("task_update", "")
    /\ lastUpd.id = "t3"
    /\ tasks # <<>> /\ ~Listed(tasks, "t3")
    /\ attached /\ streamingId # NoId
    /\ StreamIdx(View, streamingId) # {}
    /\ StreamMsg(View, streamingId).tasks = tasks

-----------------------------------------------------------------------------
(* Properties of the microphone and of cancelling.                         *)

\* The handler of this step found that no microphone can be had: initMic
\* without a capture API, or getUserMedia rejected with no stream held
MicFailure ==
    \/ last' = Last("startRecording", "no api")
    \/ last' = Last("getUserMedia", "denied") /\ ~micInit

C17_CancelDiscards ==
    [][/\ last' = Last("cancelRecording", "stopped")
            => /\ recs'[recorderRef].state = "stopping"
               /\ recs'[recorderRef].onstop = "idle"
               /\ blobs' = blobs /\ sentBin' = sentBin
       /\ \A r \in DOMAIN recs :
            recs[r].onstop = "idle"
                => /\ recs'[r].onstop = "idle"
                   /\ (recs[r].state = "stopping" /\ recs'[r].state = "inactive")
                        => (blobs' = blobs /\ sentBin' = sentBin /\ status' = "idle")]_vars

\* A recording with more than MinBlobSize bytes, made on an open connection,
\* was cancelled and its stop event has run
C17_Witness ==
    /\ last = Last("onstop", "cancelled")
    /\ \E r \in DOMAIN recs : recs[r].state = "inactive" /\ recs[r].size = MinBlobSize + 1
    /\ SockOpen
    /\ status = "idle" /\ blobs = 0 /\ sentBin = 0

-----------------------------------------------------------------------------
(* Properties of teardown.                                                 *)

\* C18 (as claimed): when disconnect returns no barge-in loop has a callback
\* requested, there is no playback engine, the current WebSocket is closing
\* or closed, and no recorder is recording.
C18_DisconnectReleasesAll ==
    [][last'[1] = "disconnect"
          => /\ loops' = <<>>
             /\ ~player'
             /\ socketRef' # 0 => socks'[socketRef'] \in {"CLOSING", "CLOSED"}
             /\ \A r \in DOMAIN recs' : recs'[r].state # "recording"]_vars

-----------------------------------------------------------------------------
(* Properties of the recording's duration.                                 *)

\* C19 (as claimed): whenever the status is listening, the status later
\* leaves listening, with no call of stopRecording or cancelRecording needed
\* (as far as handler runs are explored).
C19_ListeningEnds ==
    [](status = "listening" => <>(status # "listening" \/ budget = 0))

-----------------------------------------------------------------------------
(* Properties of playback after a barge-in.                                *)

\* C20 (as claimed): once a barge-in has sent interrupt in a turn, a binary
\* frame that arrives before the next assistant_start is fed to no engine.
C20_NoStaleAudio ==
    [][(last'[1] = "binary" /\ intrCount > 0) => fed' = fed]_vars

-----------------------------------------------------------------------------
-----------------------------------------------------------------------------
\* C22: sendTextMessage(text) on an open WebSocket appends exactly one user
\* message with that text, hands exactly one text_input frame with that text
\* to the transport and sets the status to processing, all inside the call;
\* with no open WebSocket it sends nothing, appends nothing and leaves the
\* status.
C22_SendTextMessage ==
    [][last'[1] = "sendTextMessage"
          => IF SockOpen
             THEN \E text \in TypedTexts :
                     /\ View' = Append(View, Message(TextMsgId(now), "user", text))
                     /\ textFrames' = Append(textFrames, text)
                     /\ status' = "processing"
                     /\ sentBin' = sentBin
             ELSE UNCHANGED <<messages, msgQueue, status, textFrames, firstSent, sentBin>>]_vars

\* A typed message sent on the open connection: one frame, one message
C22_Witness ==
    /\ last = Last("sendTextMessage", "sent")
    /\ SockOpen
    /\ Len(textFrames) = 1
    /\ textFrames = << <<"v">> >>
    /\ Len(View) = 1 /\ View[1].source = "user" /\ View[1].text = <<"v">>
    /\ status = "processing"

-----------------------------------------------------------------------------
\* The messages of list ms that a token or done updater changes
Designated(ms, id) == {i \in DOMAIN ms : ms[i].id = id}

\* C23 (as claimed): at most one message of the store carries the id the
\* active-stream pointer holds, so a token or done frame changes at most one
\* message, also when a transcript and an assistant_start, or two
\* assistant_start frames, are handled within one value of Date.now().
C23_OneDesignatedMessage ==
    streamingId # NoId => Cardinality(Designated(View, streamingId)) <= 1

-----------------------------------------------------------------------------
-----------------------------------------------------------------------------
\* This step is the close or error event of a WebSocket other than the one
\* socketRef holds
StaleSocketEvent ==
    /\ last'[1] \in {"onclose", "onerror"}
    /\ \E s \in DOMAIN socks : s # socketRef /\ socks'[s] # socks[s]

\* C25 (as claimed): the close and error events of a WebSocket that a later
\* connect has superseded change neither the status nor the message list,
\* and no transport event leaves the status at disconnected while the
\* current WebSocket is open and has sent its start frame.
C25_StaleEventsIgnored ==
    [][/\ StaleSocketEvent => UNCHANGED <<status, messages, msgQueue>>
       /\ (last'[1] \in {"onclose", "onerror", "onopen"}
             /\ socketRef # 0 /\ socks'[socketRef] = "OPEN"
             /\ firstSent'[socketRef] = "start")
            => status' # "disconnected"]_vars

-----------------------------------------------------------------------------
\* The recorders that are recording
Active == {r \in DOMAIN recs : recs[r].state = "recording"}

\* C26 (as claimed): at most one recorder is recording at any time, and a
\* recorder that is recording is the one recorderRef holds, so that
\* stopRecording and cancelRecording reach it.
C26_OneRecorder ==
    /\ Cardinality(Active) <= 1
    /\ \A r \in Active : r = recorderRef

-----------------------------------------------------------------------------
\* C27 (as claimed): while the current recorder is recording the status is
\* listening, whatever frame, barge-in or disconnect came in the meantime;
\* and once the stop event of the current recorder has run, the status is
\* no longer listening.
C27_ListeningIffRecording ==
    /\ Recording => status = "listening"
    /\ (recorderRef # 0 /\ recs[recorderRef].state = "inactive") => status # "listening"

-----------------------------------------------------------------------------
\* C28 (as claimed): an animation frame of the barge-in loops sends an
\* interrupt frame, destroys the engine or changes the status only when the
\* status is speaking and the current WebSocket is open.
C28_BargeInOnlyWhileSpeaking ==
    [][(last'[1] = "frame"
          /\ (intrCount' # intrCount \/ player' # player \/ status' # status))
            => (status = "speaking" /\ SockOpen)]_vars

-----------------------------------------------------------------------------
\* C29 (as claimed): once the connection whose assistant_start opened the
\* active stream is no longer open, a token, task_queue, task_update or done
\* frame (which then comes from a later connection that has had no
\* assistant_start of its own) changes no message of the list.
C29_NoCrossConnectionUpdate ==
    [][(/\ last'[1] \in {"token", "task_queue", "task_update", "done"}
        /\ streamSock # 0
        /\ socks[streamSock] # "OPEN")
          => View' = View]_vars

-----------------------------------------------------------------------------
\* The messages of list ms made by sendTextMessage or by an inbound frame
Live(ms) == {i \in DOMAIN ms : ms[i].id[1] \in {"msg", "session"}}

\* C30 (as claimed): a history response is applied only when it is the
\* response for the session selected at that moment, and every message that
\* sendTextMessage or an inbound frame appended since the session was
\* selected is still in the list after the response has been applied.
C30_HistoryKeepsLiveState ==
    [][last'[1] = "history"
          => /\ last'[2] = session
             /\ LET before == View
                    after == View'
                IN \A i \in Live(before) : \E j \in DOMAIN after : after[j] = before[i]]_vars

====
